---- MODULE Spec2Model ----
(***************************************************************************)
(* A model of genie::geometry::ROOTGeomAnalyzer (src/Geo/ROOTGeomAnalyzer  *)
(* .cxx): the ray stepper, the path-length calculator, the max-path-length *)
(* scanner and the vertex sampler, over a lattice geometry.                *)
(*                                                                         *)
(* The geometry navigator (TGeoManager) is an external collaborator.  It   *)
(* is modelled by a box of unit cells, each cell belonging to one volume.  *)
(* Points are integer 3-vectors and directions are lattice directions      *)
(* (components in -1..1); a point on a cell boundary is classified into    *)
(* the cell ahead of it along the navigator's current direction.  Lengths  *)
(* are integers: one lattice unit is one vertex-sampling increment.        *)
(***************************************************************************)
EXTENDS Integers, Sequences, FiniteSets, TLC

(***************************************************************************)
(* Bounds of the model.                                                    *)
(***************************************************************************)
HX == 2          \* half-length of the world box along x, in cells
HY == 2          \* half-length of the world box along y
HZ == 2          \* half-length of the world box along z
MaxUnits == 2    \* SetUnits is called with 1..MaxUnits metres
MaxNPoints == 2  \* SetScannerNPoints is called with 1..MaxNPoints
MaxNRays == 2    \* SetScannerNRays is called with 1..MaxNRays
MaxCalls == 3    \* entry point calls in one session of the whole analyzer

(***************************************************************************)
(* Program constants.                                                      *)
(***************************************************************************)
BigStep == 1000000          \* TGeoShape::Big(), the step of a ray that meets nothing (1E30)
NeverEnterStep == 999000    \* the threshold of WillNeverEnter (9.99E29), same ratio to BigStep
MaxCounterLoop == 100       \* the iteration cap of ComputeMaxPathLengthPDG
StepIncrease == 1           \* the increment of the vertex walk (0.001), the lattice unit
UnitsMeter == 1             \* genie::units::meter, the unit fScale is relative to

(***************************************************************************)
(* Vectors.                                                                *)
(***************************************************************************)
VAdd(u, v) == <<u[1] + v[1], u[2] + v[2], u[3] + v[3]>>
VScale(k, v) == <<k * v[1], k * v[2], k * v[3]>>
Abs(n) == IF n < 0 THEN -n ELSE n
Sign(n) == IF n < 0 THEN -1 ELSE IF n > 0 THEN 1 ELSE 0
Max2(a, b) == IF a > b THEN a ELSE b

\* the one element of a singleton set: The({e(x) : x \in {v}}) is e of the value v,
\* with v worked out once however often e reads it
The(S) == CHOOSE e \in S : TRUE
ZeroVec == <<0, 0, 0>>

\* TLorentzVector::P(): the magnitude of the 3-momentum.  The momenta of the
\* model have all their non-zero components of one magnitude, and p/|p| is
\* the lattice direction they point along.
PMag(p) == Max2(Abs(p[1]), Max2(Abs(p[2]), Abs(p[3])))
UnitDir(p) == <<p[1] \div PMag(p), p[2] \div PMag(p), p[3] \div PMag(p)>>

(***************************************************************************)
(* The material catalogue: TGeoVolume -> TGeoMedium -> TGeoMaterial.       *)
(* A and Z are kept in tenths, as the doubles GetA() and GetZ() return.    *)
(***************************************************************************)
Elem(a10, z10) == [A10 |-> a10, Z10 |-> z10]

Volume(v) ==
  CASE v = "World" -> [med |-> TRUE, mat |-> TRUE, mixt |-> FALSE, A10 |-> 140, Z10 |-> 70,
                       dens |-> 1, elems |-> <<>>]
    [] v = "vFe3"  -> [med |-> TRUE, mat |-> TRUE, mixt |-> FALSE, A10 |-> 558, Z10 |-> 260,
                       dens |-> 3, elems |-> <<>>]
    [] v = "vFe1"  -> [med |-> TRUE, mat |-> TRUE, mixt |-> FALSE, A10 |-> 558, Z10 |-> 260,
                       dens |-> 1, elems |-> <<>>]
    [] v = "vMix"  -> [med |-> TRUE, mat |-> TRUE, mixt |-> TRUE, A10 |-> 143, Z10 |-> 72,
                       dens |-> 2, elems |-> <<Elem(10, 10), Elem(160, 80)>>]
    [] v = "vC"    -> [med |-> TRUE, mat |-> TRUE, mixt |-> FALSE, A10 |-> 120, Z10 |-> 60,
                       dens |-> 2, elems |-> <<>>]
    [] v = "vVoid" -> [med |-> FALSE, mat |-> FALSE, mixt |-> FALSE, A10 |-> 0, Z10 |-> 0,
                       dens |-> 0, elems |-> <<>>]
    [] v = "vNoMat" -> [med |-> TRUE, mat |-> FALSE, mixt |-> FALSE, A10 |-> 0, Z10 |-> 0,
                       dens |-> 0, elems |-> <<>>]

\* pdg::IonPdgCode(A,Z): the integer encoding of (A,Z).
IonPdgCode(A, Z) == 1000000000 + A * 1000000 + Z * 1000

\* GetTargetPdgCode(const TGeoMaterial*) and (const TGeoElement*): int(A), int(Z).
GetTargetPdgCode(m) == IonPdgCode(m.A10 \div 10, m.Z10 \div 10)

\* GetWeight without the test of fDensWeight
GetWeightDensity(mat, densWeight) == mat.dens

\* GetWeight: the density, or 1 when density weighting is off.
GetWeight(mat, densWeight) == IF densWeight THEN mat.dens ELSE 1

(***************************************************************************)
(* The geometries.  A geometry gives each cell of the world box a volume;  *)
(* everything off the box is outside.  ci, rj, rk count cells from the     *)
(* low corner of the box.                                                  *)
(***************************************************************************)
Geoms == {"G1", "G2"}

\* the geometries the stepping loops are given: G3 holds a volume with no medium
\* and one whose medium has no material
OracleGeoms == Geoms \cup {"G3"}

\* G1 fills the box.  G2 is two cubes set corner to corner: the low one holds a
\* slab of carbon and the mixture, the high one is bare world material, and the
\* rest of the box is outside the top volume.  G3 fills the box: in its first two
\* rows carbon and iron lie either side of a volume with no medium or no material.
CellVolume(g, ci, rj, rk) ==
  IF g = "G3"
  THEN IF rk = 0 /\ rj \in {0, 1}
       THEN (CASE ci = 0 -> "vC" [] ci = 1 -> (IF rj = 0 THEN "vVoid" ELSE "vNoMat")
               [] ci = 2 -> "vFe1" [] OTHER -> "World")
       ELSE "World"
  ELSE IF g = "G1"
  THEN IF rk = 0 /\ rj = 0
       THEN (CASE ci = 0 -> "vFe3" [] ci = 1 -> "vFe1" [] ci = 2 -> "vMix" [] OTHER -> "World")
       ELSE IF rk = 0 THEN "vC"
       ELSE (CASE ci = 0 -> "vMix" [] ci = 1 -> "vC" [] OTHER -> "World")
  ELSE IF ci < HX /\ rj < HY /\ rk < HZ THEN (IF ci = 0 THEN "vC" ELSE "vMix")
       ELSE IF ci >= HX /\ rj >= HY /\ rk >= HZ THEN "World"
       ELSE "OUT"

\* TGeoManager::GetListOfVolumes
ListOfVolumes(g) ==
  IF g = "G1" THEN <<"World", "vFe3", "vFe1", "vMix", "vC">>
  ELSE IF g = "G2" THEN <<"World", "vC", "vMix">>
  ELSE <<"World", "vC", "vVoid", "vNoMat", "vFe1">>

\* TGeoManager::GetTopVolume
GetTopVolume(g) == "World"

\* TGeoManager::GetVolume(name): the volume, or "NULL"
GetVolume(g, name) ==
  IF \E i \in 1..Len(ListOfVolumes(g)) : ListOfVolumes(g)[i] = name THEN name ELSE "NULL"

\* TGeoVolume::GetShape() as a TGeoBBox: half-lengths and origin
GetShape(v) ==
  IF v = "World" THEN [dx |-> HX, dy |-> HY, dz |-> HZ, o |-> ZeroVec]
  ELSE [dx |-> 1, dy |-> 1, dz |-> 1, o |-> ZeroVec]

(***************************************************************************)
(* The navigator.                                                          *)
(***************************************************************************)
\* the index of the cell a coordinate lies in, for a direction component d
CellIdx(c, d) == IF d < 0 THEN c - 1 ELSE c

\* FindNode + GetCurrentVolume + IsOutside: the volume at a point, "OUT" outside
VolAt(g, pt, d) ==
  LET i == CellIdx(pt[1], d[1]) + HX
      j == CellIdx(pt[2], d[2]) + HY
      k == CellIdx(pt[3], d[3]) + HZ
  IN IF i \in 0..(2 * HX - 1) /\ j \in 0..(2 * HY - 1) /\ k \in 0..(2 * HZ - 1)
     THEN CellVolume(g, i, j, k) ELSE "OUT"

\* how far ahead the navigator looks for a boundary: further than any boundary is
\* from a point a traversal reaches
FarStep == 4 * (HX + HY + HZ)

\* the first t >= k at which the volume along the ray is no longer v0
RECURSIVE NextChange(_, _, _, _, _)
NextChange(g, pt, d, v0, k) ==
  IF k > FarStep THEN BigStep
  ELSE IF VolAt(g, VAdd(pt, VScale(k, d)), d) # v0 THEN k
  ELSE NextChange(g, pt, d, v0, k + 1)

\* FindNextBoundary + GetStep: the distance to where the volume changes, BigStep if nowhere
FindNextBoundary(g, pt, d) ==
  IF d = ZeroVec THEN BigStep ELSE NextChange(g, pt, d, VolAt(g, pt, d), 1)

\* FindNextBoundary(); step = GetStep(); while(!IsEntering()) { Step(); step = GetStep(); }
\* Step() carries the navigator's point over the boundary and IsEntering() tells
\* whether it came into another volume: with no boundary ahead it never does, and
\* the step stays BigStep.
StepToBoundary(g, cur, d) ==
  The({[step |-> s, entering |-> s < BigStep,
        point |-> IF s < BigStep THEN VAdd(cur, VScale(s, d)) ELSE cur] :
       s \in {FindNextBoundary(g, cur, d)}})

\* WillNeverEnter
WillNeverEnter(step) == step > NeverEnterStep

(***************************************************************************)
(* PDGCodeList and PathLengthList (EVGDrivers/PathLengthList.h).           *)
(***************************************************************************)
Range(s) == {s[i] : i \in 1..Len(s)}

\* PathLengthList(const PDGCodeList &): one zero entry per nuclide of the list
PathLengthList(pdglist) == [k \in Range(pdglist) |-> 0]

\* PathLengthList::SetAllToZero
SetAllToZero(pl) == [k \in DOMAIN pl |-> 0]

\* PathLengthList::AddPathLength: adds to the entry of a known nuclide
AddPathLength(pl, pdgc, len) ==
  IF pdgc \in DOMAIN pl THEN [pl EXCEPT ![pdgc] = @ + len] ELSE pl

\* PathLengthList::ScalePathLength
ScalePathLength(pl, pdgc, scale) == [pl EXCEPT ![pdgc] = @ * scale]

\* ScalePathLengths with every entry scaled twice
ScalePathLengthsTwice(pl, scale) ==
  [k \in DOMAIN pl |-> ScalePathLength(ScalePathLength(pl, k, scale), k, scale)[k]]

\* ScalePathLengths: every entry of the list, once
ScalePathLengths(pl, scale) == [k \in DOMAIN pl |-> ScalePathLength(pl, k, scale)[k]]

\* BuildListOfTargetNuclei collecting no code for the elements of a mixture
ElementCodesNone(elems, i) == <<>>

\* BuildListOfTargetNuclei: one code per volume, one per element of a mixture
RECURSIVE ElementCodes(_, _)
ElementCodes(elems, i) ==
  IF i > Len(elems) THEN <<>>
  ELSE <<GetTargetPdgCode(elems[i])>> \o ElementCodes(elems, i + 1)

RECURSIVE VolumeCodes(_, _)
VolumeCodes(vols, ivol) ==
  IF ivol > Len(vols) THEN <<>>
  ELSE LET mat == Volume(vols[ivol])
       IN (IF mat.mixt THEN ElementCodes(mat.elems, 1) ELSE <<GetTargetPdgCode(mat)>>)
          \o VolumeCodes(vols, ivol + 1)

BuildListOfTargetNuclei(g) == VolumeCodes(ListOfVolumes(g), 1)

(***************************************************************************)
(* ComputePathLengths.  A traversal is a record: r the position, cur the   *)
(* navigator's point, flag FlagNotInYet, cond condition, pl the list being *)
(* accumulated, pos the positions classified, segs the segments credited,  *)
(* out what the loop did last: "loop" (goes on), "exit" (loop condition    *)
(* false), "break", "never" (returned from WillNeverEnter), "hang" (an     *)
(* inner while(!IsEntering()) loop that never ends).                       *)
(***************************************************************************)
\* r[0] += step * p.Px()/p.P(); r[1] += step * p.Py()/p.P(); r[2] += step * p.Pz()/p.P()
Advance(r, step, p) ==
  <<r[1] + (step * p[1]) \div PMag(p),
    r[2] + (step * p[2]) \div PMag(p),
    r[3] + (step * p[3]) \div PMag(p)>>

MaxIter == FarStep + 2

\* the loop over the elements of a mixture (lines 533-557)
RECURSIVE MixtureElements(_, _, _, _, _, _)
MixtureElements(g, p, densWeight, mat, i, st) ==
  IF i > Len(mat.elems) \/ st.out = "hang" THEN st
  ELSE LET ion_pdgc == GetTargetPdgCode(mat.elems[i])
           weight == GetWeight(mat, densWeight)
       IN The({The({MixtureElements(g, p, densWeight, mat, i + 1, nx) : nx \in
                 {IF ~b.entering THEN [st EXCEPT !.out = "hang"]
                  ELSE [st EXCEPT !.pl = AddPathLength(st.pl, ion_pdgc, b.step * weight),
                                  !.r = Advance(st.r, b.step, p),
                                  !.cur = b.point,
                                  !.segs = Append(st.segs, <<ion_pdgc, b.step>>)]}}) :
               b \in {StepToBoundary(g, st.cur, UnitDir(p))}})

\* one pass of the while loop (lines 467-584), b the step to the next boundary
PathLengthsPassStep(g, p, densWeight, st0, b) ==
  LET d == UnitDir(p)
      st == [st0 EXCEPT !.cur = st0.r, !.cond = TRUE, !.pos = Append(st0.pos, st0.r)]
      vol == VolAt(g, st.r, d)
  IN IF vol = "OUT"
     THEN IF st.flag THEN [st EXCEPT !.out = "break"]
          ELSE IF WillNeverEnter(b.step) THEN [st EXCEPT !.cond = FALSE, !.out = "never"]
          ELSE IF ~b.entering THEN [st EXCEPT !.cond = FALSE, !.out = "hang"]
          ELSE [st EXCEPT !.cond = FALSE, !.cur = b.point, !.r = Advance(st.r, b.step, p)]
     ELSE LET mat == Volume(vol)
              in == [st EXCEPT !.flag = TRUE]
          IN IF ~mat.med \/ ~mat.mat THEN [in EXCEPT !.cond = FALSE, !.out = "exit"]
             ELSE IF mat.mixt THEN MixtureElements(g, p, densWeight, mat, 1, in)
             ELSE LET ion_pdgc == GetTargetPdgCode(mat)
                      weight == GetWeight(mat, densWeight)
                  IN IF ~b.entering THEN [in EXCEPT !.out = "hang"]
                     ELSE [in EXCEPT !.pl = AddPathLength(in.pl, ion_pdgc, b.step * weight),
                                     !.r = Advance(in.r, b.step, p),
                                     !.cur = b.point,
                                     !.segs = Append(in.segs, <<ion_pdgc, b.step>>)]

PathLengthsPass(g, p, densWeight, st0) ==
  The({PathLengthsPassStep(g, p, densWeight, st0, b) :
       b \in {StepToBoundary(g, st0.r, UnitDir(p))}})

RECURSIVE PathLengthsLoop(_, _, _, _, _)
PathLengthsLoop(g, p, densWeight, st, fuel) ==
  IF st.out # "loop" THEN st
  ELSE IF fuel = 0 THEN [st EXCEPT !.out = "fuel"]
  ELSE The({PathLengthsLoop(g, p, densWeight, nx, fuel - 1) :
            nx \in {PathLengthsPass(g, p, densWeight, st)}})

\* the walk and the scaling of ComputePathLengths, from the list as it is after
\* the reset (lines 455-588): the list is scaled unless WillNeverEnter returned
PathLengthsFrom(g, x, p, densWeight, scale, pl) ==
  The({IF st.out \in {"exit", "break"}
       THEN [st EXCEPT !.pl = ScalePathLengths(st.pl, scale), !.out = "ok"]
       ELSE st :
       st \in {PathLengthsLoop(g, p, densWeight,
                 [r |-> x, cur |-> x, flag |-> FALSE, cond |-> TRUE, pl |-> pl,
                  pos |-> <<>>, segs |-> <<>>, out |-> "loop"], MaxIter)}})

\* ComputePathLengths without the reset of line 453: it accumulates onto the list as it is
ComputePathLengthsNoReset(g, x, p, densWeight, scale, pl) ==
  PathLengthsFrom(g, x, p, densWeight, scale, pl)

\* ComputePathLengths(x, p) on the current list pl (lines 440-589)
ComputePathLengths(g, x, p, densWeight, scale, pl) ==
  PathLengthsFrom(g, x, p, densWeight, scale, SetAllToZero(pl))

(***************************************************************************)
(* The random source (RandomGen::Random3().Rndm()): a fixed sequence, the  *)
(* state says where in it the next draw is taken.  A draw is a number of   *)
(* quarters: 1, 2 or 3 stand for 0.25, 0.5 and 0.75.                       *)
(***************************************************************************)
RndNext(rs) == (5 * rs + 1) % 8
RndDraw(rs) == 1 + (rs % 3)

(***************************************************************************)
(* ComputeMaxPathLengthPDG (lines 833-927).                                *)
(***************************************************************************)
\* float xx = XYZ[0]: a double stored in a float keeps 24 bits
ToFloat(c) == IF Abs(c) <= 16777216 THEN c ELSE 2 * (c \div 2)

\* xx += step * direction[0]; yy += ...; zz += ...
AdvanceXYZ(xyz, step, direction) ==
  <<ToFloat(xyz[1] + step * direction[1]),
    ToFloat(xyz[2] + step * direction[2]),
    ToFloat(xyz[3] + step * direction[3])>>

\* one pass of the while loop (lines 852-924), b the step to the next boundary
MaxPathLengthPDGPassStep(g, direction, pdgc, densWeight, st0, b) ==
  LET st == [st0 EXCEPT !.counterloop = @ + 1, !.cond = TRUE]
      vol == VolAt(g, st.xyz, direction)
  IN IF vol = "OUT"
     THEN IF st.flag THEN [st EXCEPT !.cond = FALSE, !.out = "break"]
          ELSE IF ~b.entering THEN [st EXCEPT !.cond = FALSE, !.out = "hang"]
          ELSE [st EXCEPT !.cond = FALSE, !.xyz = AdvanceXYZ(st.xyz, b.step, direction)]
     ELSE LET mat == Volume(vol)
              in == [st EXCEPT !.flag = TRUE]
          IN IF ~mat.med \/ ~mat.mat THEN [in EXCEPT !.cond = FALSE, !.out = "exit"]
             ELSE LET ion_pdgc == GetTargetPdgCode(mat)
                  IN IF ~b.entering THEN [in EXCEPT !.out = "hang"]
                     ELSE [in EXCEPT
                             !.Length = IF ion_pdgc = pdgc THEN @ + b.step ELSE @,
                             !.weight = IF ion_pdgc = pdgc THEN GetWeight(mat, densWeight) ELSE @,
                             !.xyz = AdvanceXYZ(in.xyz, b.step, direction)]

MaxPathLengthPDGPass(g, direction, pdgc, densWeight, st0) ==
  The({MaxPathLengthPDGPassStep(g, direction, pdgc, densWeight, st0, b) :
       b \in {StepToBoundary(g, st0.xyz, direction)}})

RECURSIVE MaxPathLengthPDGLoop(_, _, _, _, _)
MaxPathLengthPDGLoop(g, direction, pdgc, densWeight, st) ==
  IF st.out # "loop" THEN st
  ELSE IF ~(st.counterloop < MaxCounterLoop) THEN [st EXCEPT !.out = "exit"]
  ELSE The({MaxPathLengthPDGLoop(g, direction, pdgc, densWeight, nx) :
            nx \in {MaxPathLengthPDGPass(g, direction, pdgc, densWeight, st)}})

\* ComputeMaxPathLengthPDG(XYZ, direction, pdgc): [out, Length] with Length the
\* value returned (Length*weight) when out is "ok"
ComputeMaxPathLengthPDG(g, XYZ, direction, pdgc, densWeight) ==
  The({IF st.out = "hang" THEN [out |-> "hang", Length |-> 0]
       ELSE [out |-> "ok", Length |-> st.Length * st.weight] :
       st \in {MaxPathLengthPDGLoop(g, direction, pdgc, densWeight,
                 [xyz |-> <<ToFloat(XYZ[1]), ToFloat(XYZ[2]), ToFloat(XYZ[3])>>,
                  flag |-> FALSE, cond |-> TRUE, Length |-> 0, weight |-> 0,
                  counterloop |-> 0, out |-> "loop"])}})

(***************************************************************************)
(* ComputeMaxPathLengths (lines 101-353).                                  *)
(***************************************************************************)
Faces == <<"top", "bottom", "left", "right", "back", "front">>

\* o - d + 2*d*Rndm(), on the lattice
SurfCoord(o, d, u) == o - d + (2 * d * u) \div 4

\* the point of a face from two draws, in the order the code draws them
SurfacePoint(face, box, u1, u2) ==
  LET ox == box.o[1]  oy == box.o[2]  oz == box.o[3]
  IN CASE face = "top"    -> <<SurfCoord(ox, box.dx, u1), oy + box.dy, SurfCoord(oz, box.dz, u2)>>
       [] face = "bottom" -> <<SurfCoord(ox, box.dx, u1), oy - box.dy, SurfCoord(oz, box.dz, u2)>>
       [] face = "left"   -> <<ox - box.dx, SurfCoord(oy, box.dy, u1), SurfCoord(oz, box.dz, u2)>>
       [] face = "right"  -> <<ox + box.dx, SurfCoord(oy, box.dy, u1), SurfCoord(oz, box.dz, u2)>>
       [] face = "back"   -> <<SurfCoord(ox, box.dx, u1), SurfCoord(oy, box.dy, u2), oz - box.dz>>
       [] face = "front"  -> <<SurfCoord(ox, box.dx, u1), SurfCoord(oy, box.dy, u2), oz + box.dz>>

\* the direction of a ray from three draws, in quarters: -0.5+Rndm() is v-2
RawDirection(face, v1, v2, v3) ==
  CASE face = "top"    -> <<v1 - 2, -v2, v3 - 2>>
    [] face = "bottom" -> <<v1 - 2, v2, v3 - 2>>
    [] face = "left"   -> <<v1, v2 - 2, v3 - 2>>
    [] face = "right"  -> <<-v1, v2 - 2, v3 - 2>>
    [] face = "back"   -> <<v1 - 2, v2 - 2, v3>>
    [] face = "front"  -> <<v1 - 2, v2 - 2, -v3>>

\* direction[i] /= dirTot: the lattice direction the vector points along
NormalizeDirection(raw) == <<Sign(raw[1]), Sign(raw[2]), Sign(raw[3])>>

\* the scan keeping the length of the last ray instead of the longest
TakeLength(MaxPath, Length) == Length

\* if(Length>MaxPath) MaxPath=Length;
UpdateMaxPath(MaxPath, Length) == IF Length > MaxPath THEN Length ELSE MaxPath

\* one ray of a surface point: three draws, the walk, the running maximum; the
\* length of each ray is kept beside it
ScanRay(g, face, xyz, pdgc, densWeight, acc) ==
  LET r1 == acc.rs
      r2 == RndNext(r1)
      r3 == RndNext(r2)
      direction == NormalizeDirection(
                     RawDirection(face, RndDraw(r1), RndDraw(r2), RndDraw(r3)))
  IN The({[acc EXCEPT !.rs = RndNext(r3),
                      !.out = IF res.out = "hang" THEN "hang" ELSE @,
                      !.rays = Append(@, [xyz |-> xyz, direction |-> direction,
                                          out |-> res.out, Length |-> res.Length]),
                      !.MaxPath = IF res.out = "ok" THEN UpdateMaxPath(@, res.Length) ELSE @] :
          res \in {ComputeMaxPathLengthPDG(g, xyz, direction, pdgc, densWeight)}})

\* the rays of one surface point (the inner while loop over Rgen)
RECURSIVE ScanRays(_, _, _, _, _, _, _)
ScanRays(g, face, xyz, pdgc, densWeight, Rgen, acc) ==
  IF Rgen = 0 \/ acc.out = "hang" THEN acc
  ELSE The({ScanRays(g, face, xyz, pdgc, densWeight, Rgen - 1, nx) :
            nx \in {ScanRay(g, face, xyz, pdgc, densWeight, acc)}})

\* the points of one face (the outer while loop over igen): two draws for the point
RECURSIVE ScanPoints(_, _, _, _, _, _, _, _)
ScanPoints(g, face, box, pdgc, densWeight, igen, maxRays, acc) ==
  IF igen = 0 \/ acc.out = "hang" THEN acc
  ELSE The({ScanPoints(g, face, box, pdgc, densWeight, igen - 1, maxRays, nx) :
            nx \in {ScanRays(g, face,
                      SurfacePoint(face, box, RndDraw(acc.rs), RndDraw(RndNext(acc.rs))),
                      pdgc, densWeight, maxRays,
                      [acc EXCEPT !.rs = RndNext(RndNext(acc.rs))])}})

\* the six faces, for one nuclide
RECURSIVE ScanFaces(_, _, _, _, _, _, _, _)
ScanFaces(g, f, box, pdgc, densWeight, maxPoints, maxRays, acc) ==
  IF f > Len(Faces) \/ acc.out = "hang" THEN acc
  ELSE The({ScanFaces(g, f + 1, box, pdgc, densWeight, maxPoints, maxRays, nx) :
            nx \in {ScanPoints(g, Faces[f], box, pdgc, densWeight, maxPoints, maxRays, acc)}})

\* the scan for one nuclide of fCurrPDGCodeList: acc.pl is the max list,
\* acc.passes the rays and the MaxPath of each pass
ScanMaterial(g, box, pdgc, densWeight, maxPoints, maxRays, acc) ==
  The({[rs |-> pass.rs, out |-> pass.out,
        passes |-> Append(acc.passes, [pdgc |-> pdgc, rays |-> pass.rays,
                                       MaxPath |-> pass.MaxPath]),
        pl |-> IF pass.out = "ok" THEN AddPathLength(acc.pl, pdgc, pass.MaxPath)
               ELSE acc.pl] :
       pass \in {ScanFaces(g, 1, box, pdgc, densWeight, maxPoints, maxRays,
                           [rs |-> acc.rs, out |-> "ok", rays |-> <<>>, MaxPath |-> 0])}})

\* the loop over fCurrPDGCodeList (lines 145-348)
RECURSIVE ScanMaterials(_, _, _, _, _, _, _, _)
ScanMaterials(g, box, pdglist, i, densWeight, maxPoints, maxRays, acc) ==
  IF i > Len(pdglist) \/ acc.out = "hang" THEN acc
  ELSE The({ScanMaterials(g, box, pdglist, i + 1, densWeight, maxPoints, maxRays, nx) :
            nx \in {ScanMaterial(g, box, pdglist[i], densWeight, maxPoints, maxRays, acc)}})

\* ComputeMaxPathLengths() on a loaded geometry: reset, scan, scale
ComputeMaxPathLengths(g, topVolume, pdglist, densWeight, scale, maxPoints, maxRays, pl, rs) ==
  The({IF acc.out = "ok" THEN [acc EXCEPT !.pl = ScalePathLengths(acc.pl, scale)] ELSE acc :
       acc \in {ScanMaterials(g, GetShape(topVolume), pdglist, 1, densWeight, maxPoints,
                  maxRays, [rs |-> rs, out |-> "ok", passes |-> <<>>, pl |-> SetAllToZero(pl)])}})

(***************************************************************************)
(* GenerateVertex (lines 591-785).                                         *)
(***************************************************************************)
\* r[1] += step * p.Px()/p.P(); r[2] += step * p.Py()/p.P(); r[3] += step * p.Pz()/p.P()
\* (lines 656-658 and 696-698): TVector3::operator[] answers an index that is
\* not 0, 1 or 2 with a reference to the x component
AdvanceShifted(r, step, p) ==
  <<r[1] + (step * p[3]) \div PMag(p),
    r[2] + (step * p[1]) \div PMag(p),
    r[3] + (step * p[2]) \div PMag(p)>>

\* one pass of the first while loop (lines 628-700), b the step to the next boundary
VertexDistPassStep(g, p, tgtpdg, densWeight, st0, b) ==
  LET d == UnitDir(p)
      st == [st0 EXCEPT !.cur = st0.r, !.cond = TRUE, !.pos = Append(st0.pos, st0.r)]
      vol == VolAt(g, st.r, d)
  IN IF vol = "OUT"
     THEN IF st.flag THEN [st EXCEPT !.cond = FALSE, !.out = "break"]
          ELSE IF ~b.entering THEN [st EXCEPT !.cond = FALSE, !.out = "hang"]
          ELSE [st EXCEPT !.cond = FALSE, !.cur = b.point,
                          !.r = AdvanceShifted(st.r, b.step, p)]
     ELSE LET mat == Volume(vol)
              in == [st EXCEPT !.flag = TRUE]
          IN IF ~mat.med \/ ~mat.mat THEN [in EXCEPT !.cond = FALSE, !.out = "exit"]
             ELSE LET ion_pdgc == GetTargetPdgCode(mat)
                      weight == GetWeight(mat, densWeight)
                  IN IF ~b.entering THEN [in EXCEPT !.out = "hang"]
                     ELSE [in EXCEPT !.dist = IF ion_pdgc = tgtpdg THEN @ + b.step * weight ELSE @,
                                     !.r = AdvanceShifted(in.r, b.step, p),
                                     !.cur = b.point]

VertexDistPass(g, p, tgtpdg, densWeight, st0) ==
  The({VertexDistPassStep(g, p, tgtpdg, densWeight, st0, b) :
       b \in {StepToBoundary(g, st0.r, UnitDir(p))}})

RECURSIVE VertexDistLoop(_, _, _, _, _, _)
VertexDistLoop(g, p, tgtpdg, densWeight, st, fuel) ==
  IF st.out # "loop" THEN st
  ELSE IF fuel = 0 THEN [st EXCEPT !.out = "fuel"]
  ELSE The({VertexDistLoop(g, p, tgtpdg, densWeight, nx, fuel - 1) :
            nx \in {VertexDistPass(g, p, tgtpdg, densWeight, st)}})

\* the first phase: the total (distance)x(density) through tgtpdg
VertexDist(g, x, p, tgtpdg, densWeight) ==
  VertexDistLoop(g, p, tgtpdg, densWeight,
                 [r |-> x, cur |-> x, flag |-> FALSE, cond |-> TRUE, dist |-> 0,
                  pos |-> <<>>, out |-> "loop"], MaxIter)

\* one pass of the second while loop (lines 725-774)
VertexWalkPass(g, p, tgtpdg, densWeight, st0) ==
  LET d == UnitDir(p)
      r == Advance(st0.r, StepIncrease, p)
      st == [st0 EXCEPT !.r = r, !.cur = r, !.cond = TRUE]
      vol == VolAt(g, r, d)
  IN IF vol = "OUT"
     THEN IF st.flag THEN [st EXCEPT !.cond = FALSE, !.out = "break"]
          ELSE [st EXCEPT !.cond = FALSE]
     ELSE LET mat == Volume(vol)
              in == [st EXCEPT !.flag = TRUE]
          IN IF ~mat.med \/ ~mat.mat THEN [in EXCEPT !.cond = FALSE, !.out = "exit"]
             ELSE IF GetTargetPdgCode(mat) = tgtpdg
                  THEN [in EXCEPT !.distToVtx = @ + StepIncrease * GetWeight(mat, densWeight)]
                  ELSE in

\* the second loop; distVertex4 is four times distVertex = Rndm()*dist
RECURSIVE VertexWalkLoop(_, _, _, _, _, _, _)
VertexWalkLoop(g, p, tgtpdg, densWeight, distVertex4, st, fuel) ==
  IF st.out # "loop" THEN st
  ELSE IF ~(4 * st.distToVtx < distVertex4) THEN [st EXCEPT !.out = "exit"]
  ELSE IF fuel = 0 THEN [st EXCEPT !.out = "fuel"]
  ELSE The({VertexWalkLoop(g, p, tgtpdg, densWeight, distVertex4, nx, fuel - 1) :
            nx \in {VertexWalkPass(g, p, tgtpdg, densWeight, st)}})

\* GenerateVertex without the reset of line 602
KeepVertex(vertex) == vertex

\* fCurrVertex->SetXYZ(0.,0.,0.) (line 602)
ResetVertex(vertex) == ZeroVec

\* the second phase, after a first phase ph1 that found material: the walk up to
\* distVertex and one increment back (lines 716-781)
VertexWalk(g, x, p, tgtpdg, densWeight, u, ph1) ==
  The({[out |-> IF ph2.out = "fuel" THEN "fuel" ELSE "ok",
        vertex |-> Advance(ph2.r, -StepIncrease, p),
        dist |-> ph1.dist, cur |-> ph2.cur, drew |-> TRUE] :
       ph2 \in {VertexWalkLoop(g, p, tgtpdg, densWeight, u * ph1.dist,
                  [r |-> x, cur |-> ph1.cur, flag |-> FALSE, cond |-> TRUE,
                   distToVtx |-> 0, out |-> "loop"], 4 * MaxIter)}})

\* GenerateVertex(x, p, tgtpdg) on a loaded geometry, with u the draw of Rndm()
\* and vertex the current vertex: [out, vertex, dist, cur, drew]; out is "nomat"
\* when dist is zero
GenerateVertex(g, x, p, tgtpdg, densWeight, u, vertex) ==
  The({IF ph1.out \in {"hang", "fuel"}
       THEN [out |-> ph1.out, vertex |-> ResetVertex(vertex), dist |-> ph1.dist,
             cur |-> ph1.cur, drew |-> FALSE]
       ELSE IF ph1.dist = 0
       THEN [out |-> "nomat", vertex |-> ResetVertex(vertex), dist |-> 0,
             cur |-> ph1.cur, drew |-> FALSE]
       ELSE VertexWalk(g, x, p, tgtpdg, densWeight, u, ph1) :
       ph1 \in {VertexDist(g, x, p, tgtpdg, densWeight)}})

(***************************************************************************)
(* The analyzer.                                                           *)
(***************************************************************************)
VARIABLES
  fGeometry,               \* the geometry loaded, "NULL", or "GARBAGE" (never assigned)
  fTopVolume,              \* a volume name or "NULL"
  fTopVolumeName,
  fCurrPDGCodeList,        \* the sequence of codes, or "NULL"
  fCurrPathLengthList,     \* code -> path length, or "NULL"
  fCurrMaxPathLengthList,  \* code -> max path length, or "NULL"
  fCurrVertex,             \* a point, or "GARBAGE" (the pointer was never assigned)
  fScale,
  fDensWeight,
  fNPoints,
  fNRays,
  rnd,                     \* the place in the random sequence
  status,                  \* "ready", "hung" (a loop that never ends), "crashed", "corrupt"
  ncalls,                  \* the calls made in a session of the whole analyzer
  last,                    \* the last entry point call: its arguments and what it gave
  prev                     \* the call before it, when it was the same entry point on the
                           \* same ray or from the same place of the random sequence

vars == <<fGeometry, fTopVolume, fTopVolumeName, fCurrPDGCodeList, fCurrPathLengthList,
          fCurrMaxPathLengthList, fCurrVertex, fScale, fDensWeight, fNPoints, fNRays,
          rnd, status, ncalls, last, prev>>

config == <<fTopVolume, fTopVolumeName, fScale, fDensWeight, fNPoints, fNRays>>
loaded == <<fGeometry, fCurrPDGCodeList>>

Loaded == fGeometry \in Geoms

\* Load() assigns the lists, the vertex and the top volume after fGeometry: they
\* are null (the vertex unassigned) exactly when no geometry was loaded
Created == Loaded

NoCall == [op |-> "none"]

\* the rays <<x, p>> the path-length calculator is called with
Rays ==
  { <<<<-HX, -HY, -HZ>>, <<1, 0, 0>>>>,      \* along the first row of cells
    <<<<-HX - 1, -HY, -HZ>>, <<1, 0, 0>>>>,  \* the same, from outside the box
    <<<<-HX, 1 - HY, -HZ>>, <<1, 0, 0>>>>,   \* along the second row
    <<<<-HX, -HY, -HZ>>, <<0, 1, 0>>>>,      \* along the first column
    <<<<HX, -HY, -HZ>>, <<1, 0, 0>>>>,       \* from the far face, away from the box
    <<<<HX, -HY, -HZ>>, <<-2, 0, 0>>>>,      \* from the far face, back along the first row
    <<<<-HX, -HY, -HZ>>, <<1, 1, 1>>>>,      \* along the diagonal
    <<<<0, 0, 0>>, <<0, 1, 0>>>> }           \* from the centre

\* the rays and the nuclides (iron, carbon, oxygen) the vertex sampler is called with
VertexRays ==
  { <<<<-HX, -HY, -HZ>>, <<1, 0, 0>>>>,
    <<<<-HX - 1, -HY, -HZ>>, <<1, 0, 0>>>>,
    <<<<-HX, 1 - HY, -HZ>>, <<1, 0, 0>>>>,
    <<<<-HX, -HY, -HZ>>, <<0, 1, 0>>>> }
VertexTargets == {IonPdgCode(55, 26), IonPdgCode(12, 6), IonPdgCode(16, 8)}

\* the rays and the nuclide a session of the whole analyzer uses
EntryRays == { <<<<-HX, -HY, -HZ>>, <<1, 0, 0>>>>, <<<<-HX, -HY, -HZ>>, <<0, 1, 0>>>> }
EntryTargets == {IonPdgCode(12, 6)}

TopVolumeNames == {"World", "vFe3", "vC", "vNone"}
Units == 1..MaxUnits
Seeds == {0, 1, 3}

ScannerDefault == 200   \* SetScannerNPoints(200), SetScannerNRays(200) of Initialize
MinNat(a, b) == IF a < b THEN a ELSE b

\* SetUnits: fScale = u/units::meter
ScaleOfUnits(u) == (u * UnitsMeter) \div UnitsMeter

\* Initialize() and then Load(): the state a constructor leaves.  A Load(filename)
\* of an inaccessible file returns before fGeometry and fCurrVertex are assigned.
Init ==
  /\ \/ \E g \in Geoms :
          /\ fGeometry = g
          /\ fCurrPDGCodeList = BuildListOfTargetNuclei(g)
          /\ fCurrPathLengthList = PathLengthList(BuildListOfTargetNuclei(g))
          /\ fCurrMaxPathLengthList = PathLengthList(BuildListOfTargetNuclei(g))
          /\ fCurrVertex = ZeroVec
          /\ fTopVolume = GetTopVolume(g)
     \/ /\ fGeometry \in {"NULL", "GARBAGE"}
        /\ fCurrPDGCodeList = "NULL"
        /\ fCurrPathLengthList = "NULL"
        /\ fCurrMaxPathLengthList = "NULL"
        /\ fCurrVertex = "GARBAGE"
        /\ fTopVolume = "NULL"
  /\ fTopVolumeName = ""
  /\ fScale = ScaleOfUnits(UnitsMeter)
  /\ fDensWeight = TRUE
  /\ fNPoints = MinNat(ScannerDefault, MaxNPoints)
  /\ fNRays = MinNat(ScannerDefault, MaxNRays)
  /\ rnd = 0
  /\ status = "ready"
  /\ ncalls = 0
  /\ last = NoCall
  /\ prev = NoCall

SetUnits(u) ==
  /\ status = "ready"
  /\ fScale' = ScaleOfUnits(u * UnitsMeter)
  /\ UNCHANGED <<loaded, fTopVolume, fTopVolumeName, fCurrPathLengthList,
                 fCurrMaxPathLengthList, fCurrVertex, fDensWeight, fNPoints, fNRays,
                 rnd, status, last, prev>>

SetWeightWithDensity(b) ==
  /\ status = "ready"
  /\ fDensWeight' = b
  /\ UNCHANGED <<loaded, fTopVolume, fTopVolumeName, fCurrPathLengthList,
                 fCurrMaxPathLengthList, fCurrVertex, fScale, fNPoints, fNRays,
                 rnd, status, last, prev>>

SetScannerNPoints(n) ==
  /\ status = "ready"
  /\ fNPoints' = n
  /\ UNCHANGED <<loaded, fTopVolume, fTopVolumeName, fCurrPathLengthList,
                 fCurrMaxPathLengthList, fCurrVertex, fScale, fDensWeight, fNRays,
                 rnd, status, last, prev>>

SetScannerNRays(n) ==
  /\ status = "ready"
  /\ fNRays' = n
  /\ UNCHANGED <<loaded, fTopVolume, fTopVolumeName, fCurrPathLengthList,
                 fCurrMaxPathLengthList, fCurrVertex, fScale, fDensWeight, fNPoints,
                 rnd, status, last, prev>>

\* RandomGen: the sequence is set back to a chosen place
SetSeed(seed) ==
  /\ status = "ready"
  /\ rnd' = seed
  /\ UNCHANGED <<loaded, config, fCurrPathLengthList, fCurrMaxPathLengthList, fCurrVertex,
                 status, last, prev>>

\* SetTopVolName without the return of line 96: fTopVolume is assigned whatever was found
TopVolumeAssigned(g, topVolume, name) == GetVolume(g, name)

\* the top volume SetTopVolName(name) leaves (lines 90-98)
TopVolumeAfter(g, topVolume, name) ==
  LET gvol == GetVolume(g, name)
  IN IF gvol = "NULL" THEN topVolume ELSE gvol

\* SetTopVolName (lines 78-99); fGeometry is dereferenced whatever it holds
SetTopVolName(name) ==
  /\ status = "ready"
  /\ prev' = NoCall
  /\ IF Loaded
     THEN /\ fTopVolumeName' = IF GetVolume(fGeometry, name) = "NULL" THEN "" ELSE name
          /\ fTopVolume' = TopVolumeAfter(fGeometry, fTopVolume, name)
          /\ status' = "ready"
          /\ last' = [op |-> "SetTopVolName", name |-> name, out |-> "ok",
                      found |-> GetVolume(fGeometry, name) # "NULL",
                      before |-> fTopVolume, nullDeref |-> FALSE]
     ELSE /\ fTopVolumeName' = name
          /\ fTopVolume' = fTopVolume
          /\ status' = "crashed"
          /\ last' = [op |-> "SetTopVolName", name |-> name, out |-> "crash",
                      found |-> FALSE, before |-> fTopVolume, nullDeref |-> TRUE]
  /\ UNCHANGED <<loaded, fCurrPathLengthList, fCurrMaxPathLengthList, fCurrVertex,
                 fScale, fDensWeight, fNPoints, fNRays, rnd>>

StatusOf(out) == IF out \in {"ok", "never", "nomat"} THEN "ready" ELSE "hung"

\* ComputePathLengths(x, p): the list is reset before anything is tested
CallComputePathLengths(x, p) ==
  /\ status = "ready"
  /\ IF ~Created
     THEN /\ status' = "crashed"
          /\ last' = [op |-> "ComputePathLengths", x |-> x, p |-> p, out |-> "crash",
                      nullDeref |-> TRUE]
          /\ prev' = NoCall
          /\ UNCHANGED fCurrPathLengthList
     ELSE \E res \in {ComputePathLengths(fGeometry, x, p, fDensWeight, fScale,
                                         fCurrPathLengthList)} :
             /\ fCurrPathLengthList' = res.pl
             /\ status' = StatusOf(res.out)
             /\ last' = [op |-> "ComputePathLengths", x |-> x, p |-> p, out |-> res.out,
                         nullDeref |-> FALSE, scale |-> fScale, densWeight |-> fDensWeight,
                         ret |-> res.pl, pos |-> res.pos, segs |-> res.segs]
             /\ prev' = IF last.op = "ComputePathLengths" /\ last.x = x /\ last.p = p
                        THEN last ELSE NoCall
  /\ UNCHANGED <<loaded, config, fCurrMaxPathLengthList, fCurrVertex, rnd>>

\* ComputeMaxPathLengths(): with a null fGeometry the null list is returned
\* as a reference, with any other value the list is reset first
CallComputeMaxPathLengths ==
  /\ status = "ready"
  /\ IF fGeometry = "NULL"
     THEN /\ status' = "ready"
          /\ last' = [op |-> "ComputeMaxPathLengths", out |-> "nogeom", nullDeref |-> ~Created]
          /\ prev' = NoCall
          /\ UNCHANGED <<fCurrMaxPathLengthList, rnd>>
     ELSE IF ~Created
     THEN /\ status' = "crashed"
          /\ last' = [op |-> "ComputeMaxPathLengths", out |-> "crash", nullDeref |-> TRUE]
          /\ prev' = NoCall
          /\ UNCHANGED <<fCurrMaxPathLengthList, rnd>>
     ELSE \E res \in {ComputeMaxPathLengths(fGeometry, fTopVolume, fCurrPDGCodeList,
                        fDensWeight, fScale, fNPoints, fNRays, fCurrMaxPathLengthList, rnd)} :
             /\ fCurrMaxPathLengthList' = res.pl
             /\ rnd' = res.rs
             /\ status' = StatusOf(res.out)
             /\ last' = [op |-> "ComputeMaxPathLengths", out |-> res.out,
                         nullDeref |-> FALSE, scale |-> fScale, densWeight |-> fDensWeight,
                         maxPoints |-> fNPoints, maxRays |-> fNRays,
                         topVolume |-> fTopVolume, rs |-> rnd, ret |-> res.pl,
                         passes |-> res.passes]
             /\ prev' = IF last.op = "ComputeMaxPathLengths" /\ last.out = "ok" /\ last.rs = rnd
                        THEN last ELSE NoCall
  /\ UNCHANGED <<loaded, config, fCurrPathLengthList, fCurrVertex>>

\* GenerateVertex(x, p, tgtpdg): the vertex is written before fGeometry is tested
CallGenerateVertex(x, p, tgtpdg) ==
  /\ status = "ready"
  /\ prev' = NoCall
  /\ IF ~Created
     THEN /\ status' \in {"crashed", "corrupt"}
          /\ last' = [op |-> "GenerateVertex", x |-> x, p |-> p, tgtpdg |-> tgtpdg,
                      out |-> "crash", nullDeref |-> TRUE]
          /\ UNCHANGED <<fCurrVertex, rnd>>
     ELSE \E res \in {GenerateVertex(fGeometry, x, p, tgtpdg, fDensWeight, RndDraw(rnd),
                                     fCurrVertex)} :
             /\ fCurrVertex' = res.vertex
             /\ rnd' = IF res.drew THEN RndNext(rnd) ELSE rnd
             /\ status' = StatusOf(res.out)
             /\ last' = [op |-> "GenerateVertex", x |-> x, p |-> p, tgtpdg |-> tgtpdg,
                         out |-> res.out, nullDeref |-> FALSE, densWeight |-> fDensWeight,
                         u |-> RndDraw(rnd), before |-> fCurrVertex, ret |-> res.vertex,
                         dist |-> res.dist]
  /\ UNCHANGED <<loaded, config, fCurrPathLengthList, fCurrMaxPathLengthList>>

\* a call that is one of the at most MaxCalls of a session, and one that is not counted
Counted(A) == ncalls < MaxCalls /\ A /\ ncalls' = ncalls + 1
Free(A) == A /\ UNCHANGED ncalls

\* the path-length calculator with its settings
NextPath ==
  \/ \E u \in Units : Free(SetUnits(u))
  \/ \E b \in BOOLEAN : Free(SetWeightWithDensity(b))
  \/ \E ray \in Rays : Free(CallComputePathLengths(ray[1], ray[2]))

SpecPath == Init /\ [][NextPath]_vars

\* the scanner with its settings
NextScan ==
  \/ \E n \in 1..MaxNPoints : Free(SetScannerNPoints(n))
  \/ \E n \in 1..MaxNRays : Free(SetScannerNRays(n))
  \/ \E seed \in Seeds : Free(SetSeed(seed))
  \/ Free(CallComputeMaxPathLengths)

SpecScan == Init /\ [][NextScan]_vars

\* the vertex sampler
NextVertex ==
  \/ \E seed \in Seeds : Free(SetSeed(seed))
  \/ \E ray \in VertexRays, t \in VertexTargets : Free(CallGenerateVertex(ray[1], ray[2], t))

SpecVertex == Init /\ [][NextVertex]_vars

\* sessions of the whole analyzer: the entry points and the top volume override,
\* on an analyzer that loaded a geometry or failed to
NextEntry ==
  \/ \E name \in TopVolumeNames : Counted(SetTopVolName(name))
  \/ \E ray \in EntryRays : Counted(CallComputePathLengths(ray[1], ray[2]))
  \/ Counted(CallComputeMaxPathLengths)
  \/ \E ray \in EntryRays, t \in EntryTargets : Counted(CallGenerateVertex(ray[1], ray[2], t))

SpecEntry == Init /\ [][NextEntry]_vars

(***************************************************************************)
(* The stepping loops on their own: each loop applied to a geometry, a ray *)
(* and a nuclide drawn from the sets below.  The analyzer is left as it    *)
(* is; last holds what the loop gave.                                      *)
(***************************************************************************)
HasMaterial(v) == Volume(v).med /\ Volume(v).mat

\* the nuclides of the volumes of g that have a medium and a material
OracleNuclides(g) == VolumeCodes(SelectSeq(ListOfVolumes(g), HasMaterial), 1)

\* the loop of ComputePathLengths on a record of the nuclides of g
StepPathLengths(g, x, p) ==
  /\ \E res \in {ComputePathLengths(g, x, p, fDensWeight, fScale,
                                     PathLengthList(OracleNuclides(g)))} :
       last' = [op |-> "StepPathLengths", g |-> g, x |-> x, p |-> p, out |-> res.out,
                densWeight |-> fDensWeight, scale |-> fScale, ret |-> res.pl,
                pos |-> res.pos, segs |-> res.segs]
  /\ prev' = NoCall
  /\ UNCHANGED <<loaded, config, fCurrPathLengthList, fCurrMaxPathLengthList, fCurrVertex,
                 rnd, status>>

\* the loop of ComputeMaxPathLengthPDG
StepMaxPathLengthPDG(g, xyz, direction, pdgc) ==
  /\ \E res \in {ComputeMaxPathLengthPDG(g, xyz, direction, pdgc, fDensWeight)} :
       last' = [op |-> "StepMaxPathLengthPDG", g |-> g, x |-> xyz, p |-> direction,
                pdgc |-> pdgc, out |-> res.out, densWeight |-> fDensWeight,
                Length |-> res.Length]
  /\ prev' = NoCall
  /\ UNCHANGED <<loaded, config, fCurrPathLengthList, fCurrMaxPathLengthList, fCurrVertex,
                 rnd, status>>

\* the first loop of GenerateVertex
StepVertexDist(g, x, p, tgtpdg) ==
  /\ \E res \in {VertexDist(g, x, p, tgtpdg, fDensWeight)} :
       last' = [op |-> "StepVertexDist", g |-> g, x |-> x, p |-> p, tgtpdg |-> tgtpdg,
                out |-> res.out, densWeight |-> fDensWeight, dist |-> res.dist,
                pos |-> res.pos]
  /\ prev' = NoCall
  /\ UNCHANGED <<loaded, config, fCurrPathLengthList, fCurrMaxPathLengthList, fCurrVertex,
                 rnd, status>>

\* a loop applied, once, to the inputs drawn
Once(A) == last = NoCall /\ A /\ UNCHANGED ncalls

NextStepper ==
  \/ \E g \in OracleGeoms, ray \in Rays : Once(StepPathLengths(g, ray[1], ray[2]))
  \/ \E g \in OracleGeoms, ray \in Rays : \E n \in Range(OracleNuclides(g)) :
       Once(StepMaxPathLengthPDG(g, ray[1], UnitDir(ray[2]), n))
  \/ \E g \in OracleGeoms, ray \in Rays : \E n \in Range(OracleNuclides(g)) :
       Once(StepVertexDist(g, ray[1], ray[2], n))

SpecStepper == Init /\ [][NextStepper]_vars

Next == NextPath \/ NextScan \/ NextVertex \/ NextEntry \/ NextStepper

Spec == Init /\ [][Next]_vars

\* no traversal of the model is cut short by its iteration bound
NoFuel == last.op = "none" \/ last.out # "fuel"

(***************************************************************************)
(* The geometry read directly, without the stepper: what a ray crosses.    *)
(***************************************************************************)
\* the unit steps of the ray from x along d that lie inside the geometry
RayCells(g, x, d) == {t \in 0..FarStep : VolAt(g, VAdd(x, VScale(t, d)), d) # "OUT"}

\* the volumes the ray crosses
RayVolumes(g, x, d) == {VolAt(g, VAdd(x, VScale(t, d)), d) : t \in RayCells(g, x, d)}

\* the ray crosses one volume only, and its material is no mixture
SingleMaterial(g, x, d) ==
  /\ Cardinality(RayVolumes(g, x, d)) = 1
  /\ ~Volume(The(RayVolumes(g, x, d))).mixt

IsPathCall(c) == c.op = "ComputePathLengths" /\ c.out \in {"ok", "never", "hang"}
IsScanCall(c) == c.op = "ComputeMaxPathLengths" /\ c.out \in {"ok", "hang"}
IsVertexCall(c) == c.op = "GenerateVertex" /\ c.out \in {"ok", "nomat", "hang"}
Returned(c) == c.out \in {"ok", "never", "nomat"}

\* last repeats prev: ComputePathLengths on the same ray, both returned
SameRayTwice == IsPathCall(prev) /\ IsPathCall(last) /\ Returned(prev) /\ Returned(last)

(***************************************************************************)
(* C1.  Two consecutive calls of ComputePathLengths on the same ray, with  *)
(* the scale and the weighting mode unchanged, return the same record.     *)
(***************************************************************************)
C1_Idempotent ==
  (SameRayTwice /\ last.scale = prev.scale /\ last.densWeight = prev.densWeight)
    => last.ret = prev.ret

\* a ray through material was computed twice over
C1_Witness ==
  /\ SameRayTwice /\ last.scale = prev.scale /\ last.densWeight = prev.densWeight
  /\ \E k \in DOMAIN last.ret : last.ret[k] > 0

(***************************************************************************)
(* C2.  A sampled ray of the scan that never meets the geometry gives the  *)
(* length 0 to the running maximum: ComputeMaxPathLengthPDG returns, with  *)
(* 0, for it.                                                              *)
(***************************************************************************)
C2_NeverIntersectingGivesZero ==
  IsScanCall(last) =>
    \A i \in 1..Len(last.passes) : \A j \in 1..Len(last.passes[i].rays) :
      LET ray == last.passes[i].rays[j]
      IN RayCells(fGeometry, ray.xyz, ray.direction) = {}
           => (ray.out = "ok" /\ ray.Length = 0)

(***************************************************************************)
(* C3.  For a ray that crosses a single material that is no mixture, over  *)
(* the length L, ComputePathLengths returns scale * L * w for the nuclide  *)
(* of the material, w its density when density weighting is on and 1 when  *)
(* it is off, and 0 for every other nuclide.                               *)
(***************************************************************************)
C3_SingleMaterial ==
  (IsPathCall(last) /\ SingleMaterial(fGeometry, last.x, UnitDir(last.p)))
    => LET d == UnitDir(last.p)
           mat == Volume(The(RayVolumes(fGeometry, last.x, d)))
           L == Cardinality(RayCells(fGeometry, last.x, d))
           w == IF last.densWeight THEN mat.dens ELSE 1
       IN /\ last.out = "ok"
          /\ \A k \in DOMAIN last.ret :
               last.ret[k] = IF k = GetTargetPdgCode(mat) THEN last.scale * L * w ELSE 0

\* a single material of density other than 1 was crossed with density weighting off
C3_Witness ==
  /\ IsPathCall(last) /\ SingleMaterial(fGeometry, last.x, UnitDir(last.p))
  /\ ~last.densWeight
  /\ Volume(The(RayVolumes(fGeometry, last.x, UnitDir(last.p)))).dens > 1

(***************************************************************************)
(* C4.  With the scale factor doubled between two calls on the same ray,   *)
(* every value ComputePathLengths returns is doubled, and the positions    *)
(* visited and the segments attributed are the same.                       *)
(***************************************************************************)
C4_ScaleDoubling ==
  (SameRayTwice /\ last.densWeight = prev.densWeight /\ last.scale = 2 * prev.scale)
    => /\ \A k \in DOMAIN last.ret : last.ret[k] = 2 * prev.ret[k]
       /\ last.pos = prev.pos
       /\ last.segs = prev.segs

\* a ray through material was computed under a scale and then under twice that scale
C4_Witness ==
  /\ SameRayTwice /\ last.densWeight = prev.densWeight /\ last.scale = 2 * prev.scale
  /\ \E k \in DOMAIN prev.ret : prev.ret[k] > 0

(***************************************************************************)
(* C5.  With no geometry loaded, each of ComputeMaxPathLengths,            *)
(* ComputePathLengths and GenerateVertex returns, leaving the analyzer     *)
(* usable, without dereferencing the geometry or an object Load never      *)
(* created.                                                                *)
(***************************************************************************)
C5_MissingGeometryNonFatal ==
  (~Loaded /\ last.op \in {"ComputeMaxPathLengths", "ComputePathLengths", "GenerateVertex"})
    => (status = "ready" /\ ~last.nullDeref)

(***************************************************************************)
(* C6.  SetTopVolName with a name the loaded geometry does not hold leaves *)
(* fTopVolume the volume it was before the call.                           *)
(***************************************************************************)
C6_UnknownTopVolumeIgnored ==
  (Loaded /\ last.op = "SetTopVolName" /\ ~last.found) => fTopVolume = last.before

\* an unknown name was given after the top volume had been overridden
C6_Witness ==
  /\ Loaded /\ last.op = "SetTopVolName" /\ ~last.found
  /\ last.before # GetTopVolume(fGeometry)

(***************************************************************************)
(* C7.  As stated: when the first phase of GenerateVertex totals zero for  *)
(* the target nuclide, the vertex is left at the value it had before the   *)
(* call.                                                                   *)
(***************************************************************************)
C7_VertexKept ==
  (IsVertexCall(last) /\ last.out = "nomat") => fCurrVertex = last.before

(***************************************************************************)
(* C7, amended.  When the first phase of GenerateVertex totals zero for    *)
(* the target nuclide, GenerateVertex returns with the vertex at the       *)
(* origin, where it is reset on entry, whatever it was before the call.    *)
(***************************************************************************)
C7_VertexReset ==
  (IsVertexCall(last) /\ last.out = "nomat") => (fCurrVertex = ZeroVec /\ status = "ready")

\* the total was zero in a call made with the vertex of an earlier call off the origin
C7_Witness == IsVertexCall(last) /\ last.out = "nomat" /\ last.before # ZeroVec

(***************************************************************************)
(* C8.  A vertex GenerateVertex reports lies on the ray, x + t*p/|p| with  *)
(* t >= 0, at a position whose material is the target nuclide.             *)
(***************************************************************************)
C8_VertexInTarget ==
  (IsVertexCall(last) /\ last.out = "ok")
    => LET d == UnitDir(last.p)
           vol == VolAt(fGeometry, last.ret, d)
       IN /\ \E t \in 0..FarStep : last.ret = VAdd(last.x, VScale(t, d))
          /\ vol # "OUT"
          /\ GetTargetPdgCode(Volume(vol)) = last.tgtpdg

(***************************************************************************)
(* C9.  After ComputeMaxPathLengths, for every ray the scan sampled and    *)
(* every nuclide, the value ComputePathLengths returns along that ray is   *)
(* at most the nuclide's value in the max record.                          *)
(***************************************************************************)
C9_MaxIsUpperBound ==
  (IsScanCall(last) /\ last.out = "ok") =>
    \A i \in 1..Len(last.passes) : \A j \in 1..Len(last.passes[i].rays) :
      \A cpl \in {ComputePathLengths(fGeometry, last.passes[i].rays[j].xyz,
                    last.passes[i].rays[j].direction, last.densWeight, last.scale,
                    last.ret)} :
        cpl.out = "ok" => \A n \in DOMAIN last.ret : cpl.pl[n] <= last.ret[n]

SegsAt(g, pt, d) ==
  LET vol == VolAt(g, pt, d)
  IN IF vol = "OUT" THEN 0
     ELSE IF ~Volume(vol).med \/ ~Volume(vol).mat THEN 0
     ELSE IF Volume(vol).mixt THEN Len(Volume(vol).elems)
     ELSE 1

\* the segments credited before the i-th classified position
RECURSIVE SegsBefore(_, _, _, _)
SegsBefore(g, pos, d, i) ==
  IF i <= 1 THEN 0 ELSE SegsBefore(g, pos, d, i - 1) + SegsAt(g, pos[i - 1], d)

\* the i-th position a ComputePathLengths call classified lies in a mixture
InMixture(c, g, i) ==
  /\ VolAt(g, c.pos[i], UnitDir(c.p)) # "OUT"
  /\ Volume(VolAt(g, c.pos[i], UnitDir(c.p))).mixt

(***************************************************************************)
(* C11.  When ComputePathLengths classifies a position in a mixture of k   *)
(* elements, each of the k elements is credited the distance d from that   *)
(* position to the boundary of the segment, and the next position          *)
(* classified is the exit boundary of the segment, d further on.           *)
(***************************************************************************)
C11_MixtureOneSegment ==
  (IsPathCall(last) /\ last.out = "ok") =>
    \A i \in 1..(Len(last.pos) - 1) :
      InMixture(last, fGeometry, i) =>
        LET d == UnitDir(last.p)
            dist == FindNextBoundary(fGeometry, last.pos[i], d)
            first == SegsBefore(fGeometry, last.pos, d, i)
            k == SegsAt(fGeometry, last.pos[i], d)
        IN /\ last.pos[i + 1] = VAdd(last.pos[i], VScale(dist, d))
           /\ \A e \in 1..k : first + e <= Len(last.segs) /\ last.segs[first + e][2] = dist

\* the i-th unit step of the ray from x along d lies in a volume of g that has no
\* medium or no material
VoidAt(g, pt, d) ==
  /\ VolAt(g, pt, d) # "OUT"
  /\ ~HasMaterial(VolAt(g, pt, d))

CrossesVoid(g, x, d) == \E t \in RayCells(g, x, d) : VoidAt(g, VAdd(x, VScale(t, d)), d)

\* the weighted length of nuclide n the ray from x along d crosses from its t-th
\* unit step on, in materials that are no mixtures
RECURSIVE RayTotal(_, _, _, _, _, _)
RayTotal(g, x, d, n, densWeight, t) ==
  IF t > FarStep THEN 0
  ELSE LET vol == VolAt(g, VAdd(x, VScale(t, d)), d)
           here == IF vol # "OUT" /\ HasMaterial(vol) /\ ~Volume(vol).mixt
                      /\ GetTargetPdgCode(Volume(vol)) = n
                   THEN GetWeight(Volume(vol), densWeight) ELSE 0
       IN here + RayTotal(g, x, d, n, densWeight, t + 1)

StepperOps == {"StepPathLengths", "StepMaxPathLengthPDG", "StepVertexDist"}

(***************************************************************************)
(* C13.  In every stepping loop a step at the sentinel threshold ends the  *)
(* computation at once, with what was accumulated: no loop is left waiting *)
(* on the navigator (out is "hang" only where StepToBoundary gave BigStep),*)
(* and for a ray that never meets the geometry the loop returns zero       *)
(* having classified the start point only.                                 *)
(***************************************************************************)
C13_SentinelReturns ==
  last.op \in StepperOps =>
    /\ last.out # "hang"
    /\ RayCells(last.g, last.x, UnitDir(last.p)) = {} =>
         /\ last.op = "StepPathLengths" =>
              (last.pos = <<last.x>> /\ \A n \in DOMAIN last.ret : last.ret[n] = 0)
         /\ last.op = "StepMaxPathLengthPDG" => last.Length = 0
         /\ last.op = "StepVertexDist" => (last.pos = <<last.x>> /\ last.dist = 0)

\* the traversal of ComputePathLengths on the ray of the last call, unscaled
PathLengthsOfLast ==
  ComputePathLengths(last.g, last.x, last.p, last.densWeight, 1,
                     PathLengthList(OracleNuclides(last.g)))

(***************************************************************************)
(* C14.  The first phase of GenerateVertex follows the traversal of        *)
(* ComputePathLengths: where both end, the positions phase 1 classifies    *)
(* are the positions ComputePathLengths classifies on the same ray, and    *)
(* the total phase 1 finds for the target is the unscaled length           *)
(* ComputePathLengths records for it, mixture elements included.           *)
(***************************************************************************)
C14_Phase1FollowsPathLengths ==
  (last.op = "StepVertexDist" /\ last.out \in {"exit", "break"}) =>
    \A cpl \in {PathLengthsOfLast} :
      cpl.out = "ok" => /\ last.pos = cpl.pos
                        /\ last.dist = cpl.pl[last.tgtpdg]

\* the lengths the scan sampled for nuclide n, in every pass made for it
SampledLengths(passes, n) ==
  UNION {{passes[i].rays[j].Length : j \in 1..Len(passes[i].rays)} :
         i \in {k \in 1..Len(passes) : passes[k].pdgc = n}}

\* the largest of them, zero when there is none
SampledMax(passes, n) ==
  LET S == SampledLengths(passes, n) \cup {0}
  IN CHOOSE m \in S : \A l \in S : l <= m

(***************************************************************************)
(* C15.  A nuclide the list of target nuclei holds more than once gets, in *)
(* the record ComputeMaxPathLengths returns, the scale times the largest   *)
(* of the path lengths sampled for it, as a nuclide listed once does.      *)
(***************************************************************************)
C15_DuplicatesHarmless ==
  (IsScanCall(last) /\ last.out = "ok") =>
    \A n \in DOMAIN last.ret :
      last.ret[n] = last.scale * SampledMax(last.passes, n)

\* the keys of a record are the nuclides of the list, the values are not negative
RecordOver(pl, pdglist) ==
  /\ DOMAIN pl = Range(pdglist)
  /\ \A n \in DOMAIN pl : pl[n] >= 0

(***************************************************************************)
(* C16.  On a loaded geometry, whatever calls were made, the current and   *)
(* the maximum record have the nuclides of BuildListOfTargetNuclei as      *)
(* their keys and no negative value.  A traversal credits lengths that are *)
(* not negative to nuclides that are keys, and so does a scan; the record  *)
(* a call returns starts from zero and does not decrease: a nuclide that   *)
(* was credited nothing holds zero, and the maximum record holds at least  *)
(* the scaled maximum of every pass made for the nuclide.                  *)
(***************************************************************************)
C16_RecordInvariant ==
  Loaded =>
    /\ RecordOver(fCurrPathLengthList, fCurrPDGCodeList)
    /\ RecordOver(fCurrMaxPathLengthList, fCurrPDGCodeList)
    /\ (last.op = "ComputePathLengths" /\ last.out \in {"ok", "never", "hang"}) =>
         /\ last.ret = fCurrPathLengthList
         /\ \A i \in 1..Len(last.segs) :
              last.segs[i][1] \in DOMAIN last.ret /\ last.segs[i][2] >= 0
         /\ \A n \in DOMAIN last.ret :
              (\A i \in 1..Len(last.segs) : last.segs[i][1] # n) => last.ret[n] = 0
    /\ IsScanCall(last) =>
         /\ last.ret = fCurrMaxPathLengthList
         /\ \A i \in 1..Len(last.passes) :
              /\ last.passes[i].pdgc \in DOMAIN last.ret
              /\ last.passes[i].MaxPath >= 0
              /\ last.out = "ok" =>
                   last.ret[last.passes[i].pdgc] >= last.scale * last.passes[i].MaxPath
         /\ \A n \in DOMAIN last.ret :
              (\A i \in 1..Len(last.passes) :
                 last.passes[i].pdgc = n => last.passes[i].MaxPath = 0) => last.ret[n] = 0

\* a traversal through the mixture after a scan: both records hold lengths, and
\* one call followed another on the same analyzer
C16_Witness ==
  /\ Loaded /\ ncalls >= 2
  /\ last.op = "ComputePathLengths" /\ last.out = "ok"
  /\ \E i \in 1..Len(last.segs) : last.segs[i][1] = IonPdgCode(16, 8)
  /\ \E n \in DOMAIN fCurrMaxPathLengthList : fCurrMaxPathLengthList[n] > 0
  /\ \E n \in DOMAIN fCurrPathLengthList : fCurrPathLengthList[n] = 0

EntryPoints == {"ComputePathLengths", "ComputeMaxPathLengths", "GenerateVertex"}

(***************************************************************************)
(* C17.  On a loaded geometry every call of an entry point returns: no     *)
(* call is left in a stepping loop, in an inner while(!IsEntering()) loop  *)
(* or in the fixed-increment walk of GenerateVertex, and the analyzer      *)
(* stays ready for the next call.                                          *)
(***************************************************************************)
C17_EveryCallReturns ==
  (Loaded /\ last.op \in EntryPoints) =>
    /\ last.out \notin {"hang", "fuel"}
    /\ status = "ready"
====
